---- MODULE Spec2Model ----
(***************************************************************************)
(* Model of lambda/text-processor/lambda_function.py: the SRT-to-text      *)
(* transformer (parse_srt_to_text, clean_subtitle_text,                    *)
(* add_paragraph_breaks) and the invocation wrapper (lambda_handler with   *)
(* download_srt and upload_text).                                          *)
(*                                                                         *)
(* A Python str is a sequence of one-character strings.  The regular       *)
(* expressions of the source are modelled by what the re module does with  *)
(* them: leftmost match first, greedy or lazy quantifiers as written.      *)
(***************************************************************************)
EXTENDS Integers, Sequences, FiniteSets, TLC

VARIABLES
  pc,                  \* position of the function or handler being run
  text,                \* argument of clean_subtitle_text / add_paragraph_breaks
  stages,              \* clean_subtitle_text: value of `text` after each statement
  chars_per_paragraph, \* argument of add_paragraph_breaks
  srt_lines,           \* the lines the document was written from
  srt_content,         \* argument of parse_srt_to_text / result of download_srt
  clean_text,          \* result of parse_srt_to_text / add_paragraph_breaks
  event,               \* lambda_handler's request object
  calls,               \* S3 client calls made by the invocation, in order
  objects,             \* objects stored in the bucket by put_object
  response             \* lambda_handler's return value

vars == <<pc, text, stages, chars_per_paragraph, srt_lines, srt_content,
          clean_text, event, calls, objects, response>>

(***************************************************************************)
(* Bounds of the model.                                                    *)
(***************************************************************************)
MaxFrags == 4        \* fragments in a segment given to clean_subtitle_text
MaxWords == 4        \* words in a flat text given to add_paragraph_breaks
MaxThreshold == 6    \* largest small threshold given to add_paragraph_breaks
MaxLines == 7        \* lines in a document given to parse_srt_to_text
DocThreshold == 4    \* the small threshold documents are parsed with
MaxObjectLines == 3  \* lines in the object lambda_handler downloads

(***************************************************************************)
(* Python string primitives.                                               *)
(***************************************************************************)
\* the characters \s, str.strip() and str.split() treat as whitespace
Whitespace == {" ", "\t", "\n"}

\* the characters word.endswith(('.', '!', '?')) looks for
SentenceEnd == {".", "!", "?"}

\* the delimiters of the markup clean_subtitle_text removes
MarkupChars == {"<", ">", "{", "}", "[", "]", "(", ")"}

\* the literal prefix of the speaker-label pattern
SpeakerLiteral == <<"S", "p", "e", "a", "k", "e", "r", " ">>

\* the characters \d matches
Digits == {"0", "1", "2", "3", "4", "5", "6", "7", "8", "9"}

\* the value of a local that is not bound yet
None == <<"None">>

\* lambda_handler has neither returned nor raised
NoResponse == [pending |-> TRUE]

\* index of the first c at or after position from, 0 when there is none
RECURSIVE NextIndex(_, _, _)
NextIndex(s, c, from) ==
  IF from > Len(s) THEN 0
  ELSE IF s[from] = c THEN from
  ELSE NextIndex(s, c, from + 1)

\* s[from:] in Python's 0-based slices, here from a 1-based position
From(s, from) == SubSeq(s, from, Len(s))

RECURSIVE LStrip(_)
LStrip(s) ==
  IF s # <<>> /\ s[1] \in Whitespace THEN LStrip(From(s, 2)) ELSE s

RECURSIVE RStrip(_)
RStrip(s) ==
  IF s # <<>> /\ s[Len(s)] \in Whitespace
  THEN RStrip(SubSeq(s, 1, Len(s) - 1)) ELSE s

\* str.strip()
Strip(s) == RStrip(LStrip(s))

\* sep.join(parts)
RECURSIVE Join(_, _)
Join(parts, sep) ==
  IF parts = <<>> THEN <<>>
  ELSE IF Len(parts) = 1 THEN parts[1]
  ELSE parts[1] \o sep \o Join(From(parts, 2), sep)

\* re.sub(r'\s+', ' ', s): every maximal run of whitespace becomes one space
RECURSIVE CollapseWhitespace(_)
CollapseWhitespace(s) ==
  IF s = <<>> THEN <<>>
  ELSE IF s[1] \in Whitespace
       THEN <<" ">> \o CollapseWhitespace(LStrip(s))
       ELSE <<s[1]>> \o CollapseWhitespace(From(s, 2))

\* re.sub(open + '[^' + close + ']+' + close, '', s): a match starts at an
\* `open`, takes one or more characters other than `close` (greedy) and
\* ends at the first `close` after them
RECURSIVE SubNegatedClass(_, _, _, _)
SubNegatedClass(s, open, close, i) ==
  IF i > Len(s) THEN <<>>
  ELSE LET j == NextIndex(s, close, i + 1) IN
       IF s[i] = open /\ j >= i + 2
       THEN SubNegatedClass(s, open, close, j + 1)
       ELSE <<s[i]>> \o SubNegatedClass(s, open, close, i + 1)

\* re.sub(open + '.*?' + close, '', s): the leftmost `open` that has a
\* `close` after it on the same line starts a match, which the lazy .*?
\* ends at the first `close` after it; the scan resumes after the match
RECURSIVE SubLazy(_, _, _, _)
SubLazy(s, open, close, i) ==
  IF i > Len(s) THEN <<>>
  ELSE LET j == NextIndex(s, close, i + 1) IN
       IF s[i] = open /\ j # 0 /\ \A k \in (i + 1)..(j - 1) : s[k] # "\n"
       THEN SubLazy(s, open, close, j + 1)
       ELSE <<s[i]>> \o SubLazy(s, open, close, i + 1)

\* number of leading characters of s that are in set
RECURSIVE SpanLen(_, _)
SpanLen(s, set) ==
  IF s # <<>> /\ s[1] \in set THEN 1 + SpanLen(From(s, 2), set) ELSE 0

\* length of the match of ^Speaker \d+:\s* at the start of s, 0 for no match
SpeakerLabelLen(s) ==
  LET n == Len(SpeakerLiteral)
      d == IF Len(s) >= n /\ SubSeq(s, 1, n) = SpeakerLiteral
           THEN SpanLen(From(s, n + 1), Digits) ELSE 0
  IN IF d > 0 /\ Len(s) > n + d /\ s[n + d + 1] = ":"
     THEN n + d + 1 + SpanLen(From(s, n + d + 2), Whitespace)
     ELSE 0

\* s[p..] starts with "Speaker ", one or more digits and a colon
LabelAt(s, p) ==
  \E d \in 1..Len(s) :
    /\ p + Len(SpeakerLiteral) + d <= Len(s)
    /\ SubSeq(s, p, p + Len(SpeakerLiteral) - 1) = SpeakerLiteral
    /\ \A k \in 1..d : s[p + Len(SpeakerLiteral) - 1 + k] \in Digits
    /\ s[p + Len(SpeakerLiteral) + d] = ":"

(***************************************************************************)
(* clean_subtitle_text, one operator per statement.                        *)
(***************************************************************************)
strip_tags(s) == SubNegatedClass(s, "<", ">", 1)

strip_codes(s) == SubNegatedClass(s, "{", "}", 1)

\* the same substitution without the ^ anchor: every label goes
RECURSIVE strip_speaker_label_unanchored(_)
strip_speaker_label_unanchored(s) ==
  IF s = <<>> THEN <<>>
  ELSE IF SpeakerLabelLen(s) > 0
       THEN strip_speaker_label_unanchored(From(s, SpeakerLabelLen(s) + 1))
       ELSE <<s[1]>> \o strip_speaker_label_unanchored(From(s, 2))

strip_speaker_label(s) == From(s, SpeakerLabelLen(s) + 1)

\* the same substitution with an innermost-pair rule: a match runs from the
\* last `[` before the first `]` to that `]`
RECURSIVE SubInnermost(_, _, _)
SubInnermost(s, open, close) ==
  LET j == NextIndex(s, close, 1)
      before == {i \in 1..(j - 1) : s[i] = open}
      i == CHOOSE m \in before : \A n \in before : n <= m
  IN IF j = 0 THEN s
     ELSE IF before = {}
          THEN SubSeq(s, 1, j) \o SubInnermost(From(s, j + 1), open, close)
          ELSE SubSeq(s, 1, i - 1) \o SubInnermost(From(s, j + 1), open, close)

strip_square_brackets_innermost(s) == SubInnermost(s, "[", "]")

strip_square_brackets(s) == SubLazy(s, "[", "]", 1)

strip_parentheses(s) == SubLazy(s, "(", ")", 1)

normalize_whitespace(s) == Strip(CollapseWhitespace(s))

\* the value of `text` after each statement of clean_subtitle_text
CleanStages(s) ==
  LET t1 == strip_tags(s)
      t2 == strip_codes(t1)
      t3 == strip_speaker_label(t2)
      t4 == strip_square_brackets(t3)
      t5 == strip_parentheses(t4)
  IN [tags |-> t1, codes |-> t2, label |-> t3, square |-> t4,
      parens |-> t5, out |-> normalize_whitespace(t5)]

clean_subtitle_text(s) == CleanStages(s).out

(***************************************************************************)
(* add_paragraph_breaks.                                                   *)
(***************************************************************************)
\* the default of the chars_per_paragraph parameter
DefaultCharsPerParagraph == 500

\* number of leading characters of s that are not whitespace
RECURSIVE WordLen(_)
WordLen(s) ==
  IF s # <<>> /\ s[1] \notin Whitespace THEN 1 + WordLen(From(s, 2)) ELSE 0

\* str.split(): the maximal runs of non-whitespace characters
RECURSIVE SplitWords(_)
SplitWords(s) ==
  LET t == LStrip(s) IN
  IF t = <<>> THEN <<>>
  ELSE <<SubSeq(t, 1, WordLen(t))>> \o SplitWords(From(t, WordLen(t) + 1))

\* the same test with `or` for `and`
BreakHereEither(current_length, threshold, word) ==
  \/ current_length >= threshold
  \/ word[Len(word)] \in SentenceEnd

\* the test that closes a paragraph after `word`
BreakHere(current_length, threshold, word) ==
  /\ current_length >= threshold
  /\ word[Len(word)] \in SentenceEnd

\* the locals of add_paragraph_breaks after the loop over `words`
WordsLoop(words, threshold) ==
  LET st[i \in 0..Len(words)] ==
        IF i = 0
        THEN [paragraphs |-> <<>>, current_paragraph |-> <<>>,
              current_length |-> 0]
        ELSE LET before == st[i - 1]
                 word == words[i]
                 current == Append(before.current_paragraph, word)
                 length == before.current_length + Len(word) + 1
             IN IF BreakHere(length, threshold, word)
                THEN [paragraphs |->
                        Append(before.paragraphs, Join(current, <<" ">>)),
                      current_paragraph |-> <<>>,
                      current_length |-> 0]
                ELSE [paragraphs |-> before.paragraphs,
                      current_paragraph |-> current,
                      current_length |-> length]
  IN st[Len(words)]

\* the same without the remaining words
AllParagraphsClosedOnly(st) == st.paragraphs

\* the paragraphs once the remaining words are added
AllParagraphs(st) ==
  IF st.current_paragraph # <<>>
  THEN Append(st.paragraphs, Join(st.current_paragraph, <<" ">>))
  ELSE st.paragraphs

\* the same with one newline between paragraphs
JoinParagraphsOneNewline(paragraphs) == Join(paragraphs, <<"\n">>)

JoinParagraphs(paragraphs) == Join(paragraphs, <<"\n", "\n">>)

add_paragraph_breaks(t, threshold) ==
  IF Len(t) <= threshold THEN t
  ELSE JoinParagraphs(AllParagraphs(WordsLoop(SplitWords(t), threshold)))

(***************************************************************************)
(* parse_srt_to_text.                                                      *)
(***************************************************************************)
\* str.split(c): the pieces between the occurrences of c
RECURSIVE SplitOn(_, _)
SplitOn(s, c) ==
  LET j == NextIndex(s, c, 1) IN
  IF j = 0 THEN <<s>>
  ELSE <<SubSeq(s, 1, j - 1)>> \o SplitOn(From(s, j + 1), c)

\* where \s*\n ends when matched from position j on: the last newline of
\* the run of whitespace that starts at j, `last` when the run has none
RECURSIVE BlankRunEnd(_, _, _)
BlankRunEnd(s, j, last) ==
  IF j <= Len(s) /\ s[j] \in Whitespace
  THEN BlankRunEnd(s, j + 1, IF s[j] = "\n" THEN j ELSE last)
  ELSE last

\* re.split(r'\n\s*\n', s) from position i, the current piece starting at
\* start: a match starts at a newline and, \s* being greedy, ends at the
\* last newline that only whitespace separates from it
RECURSIVE ReSplitBlankLines(_, _, _)
ReSplitBlankLines(s, i, start) ==
  IF i > Len(s) THEN <<SubSeq(s, start, Len(s))>>
  ELSE LET end == BlankRunEnd(s, i + 1, 0) IN
       IF s[i] = "\n" /\ end # 0
       THEN <<SubSeq(s, start, i - 1)>>
              \o ReSplitBlankLines(s, end + 1, end + 1)
       ELSE ReSplitBlankLines(s, i + 1, start)

\* str.split('\n\n'): the pieces between the double newlines
RECURSIVE SplitOnDoubleNewline(_)
SplitOnDoubleNewline(s) ==
  LET at == {i \in 1..(Len(s) - 1) : s[i] = "\n" /\ s[i + 1] = "\n"}
      i == CHOOSE m \in at : \A n \in at : m <= n
  IN IF at = {} THEN <<s>>
     ELSE <<SubSeq(s, 1, i - 1)>> \o SplitOnDoubleNewline(From(s, i + 2))

\* the blocks when only the two-character string '\n\n' separates them
SplitBlocksLiteral(s) == SplitOnDoubleNewline(s)

SplitBlocks(s) == ReSplitBlankLines(s, 1, 1)

\* the same taking the lines after the index line only
BlockTextFromTimestamp(lines) == Join(From(lines, 2), <<" ">>)

\* the text lines of a block, joined
BlockText(lines) == Join(From(lines, 3), <<" ">>)

\* text_lines after the loop over blocks[i..]
RECURSIVE TextLines(_, _)
TextLines(blocks, i) ==
  IF i > Len(blocks) THEN <<>>
  ELSE LET lines == SplitOn(Strip(blocks[i]), "\n")
           subtitle_text == clean_subtitle_text(BlockText(lines))
       IN IF Strip(blocks[i]) # <<>> /\ Len(lines) >= 3
             /\ subtitle_text # <<>>
          THEN <<subtitle_text>> \o TextLines(blocks, i + 1)
          ELSE TextLines(blocks, i + 1)

\* clean_text before paragraph breaks are added
FlatText(content) ==
  Strip(CollapseWhitespace(
          Join(TextLines(SplitBlocks(Strip(content)), 1), <<" ">>)))

\* the same with the threshold one short
parse_srt_to_text_short_threshold(content, threshold) ==
  add_paragraph_breaks(FlatText(content), threshold - 1)

\* parse_srt_to_text, the threshold of add_paragraph_breaks made a parameter
\* (the source always takes the default)
parse_srt_to_text(content, threshold) ==
  add_paragraph_breaks(FlatText(content), threshold)

(***************************************************************************)
(* Specification of clean_subtitle_text: the segment is any concatenation  *)
(* of at most MaxFrags fragments.                                          *)
(***************************************************************************)
SpeakerLabel == SpeakerLiteral \o <<"1", ":">>

Fragments ==
  {SpeakerLabel, <<" ">>, <<"x">>, <<"[">>, <<"]">>, <<"(">>, <<")">>,
   <<"<">>, <<">">>, <<"{">>, <<"}">>}

RECURSIVE Concats(_, _)
Concats(F, n) ==
  IF n = 0 THEN {<<>>}
  ELSE LET P == Concats(F, n - 1) IN P \cup {p \o f : p \in P, f \in F}

\* no invocation of lambda_handler is under way
NoInvocation ==
  /\ event = None
  /\ calls = <<>>
  /\ objects = {}
  /\ response = NoResponse

InitClean ==
  /\ pc = "clean_subtitle_text"
  /\ text \in Concats(Fragments, MaxFrags)
  /\ stages = None
  /\ chars_per_paragraph = None
  /\ srt_lines = None
  /\ srt_content = None
  /\ clean_text = None
  /\ NoInvocation

CleanSubtitleText ==
  /\ pc = "clean_subtitle_text"
  /\ stages' = CleanStages(text)
  /\ pc' = "return"
  /\ UNCHANGED <<text, chars_per_paragraph, srt_lines, srt_content,
                 clean_text, event, calls, objects, response>>

NextClean == CleanSubtitleText

SpecClean == InitClean /\ [][NextClean]_vars

(***************************************************************************)
(* Specification of add_paragraph_breaks: the text is a flat text, at most *)
(* MaxWords words joined by single spaces, as parse_srt_to_text passes it. *)
(***************************************************************************)
Words ==
  {<<"a">>, <<"b", "b">>, <<"a", ".">>, <<"b", "!">>, <<"c", "c", "?">>}

RECURSIVE WordSeqs(_)
WordSeqs(n) ==
  IF n = 0 THEN {<<>>}
  ELSE LET P == WordSeqs(n - 1) IN P \cup {Append(p, w) : p \in P, w \in Words}

FlatTexts == {Join(ws, <<" ">>) : ws \in WordSeqs(MaxWords)}

InitBreaks ==
  /\ pc = "add_paragraph_breaks"
  /\ text \in FlatTexts
  /\ chars_per_paragraph \in 0..MaxThreshold \cup {DefaultCharsPerParagraph}
  /\ stages = None
  /\ srt_lines = None
  /\ srt_content = None
  /\ clean_text = None
  /\ NoInvocation

AddParagraphBreaks ==
  /\ pc = "add_paragraph_breaks"
  /\ clean_text' = add_paragraph_breaks(text, chars_per_paragraph)
  /\ pc' = "return"
  /\ UNCHANGED <<text, stages, chars_per_paragraph, srt_lines, srt_content,
                 event, calls, objects, response>>

NextBreaks == AddParagraphBreaks

SpecBreaks == InitBreaks /\ [][NextBreaks]_vars

(***************************************************************************)
(* Specification of parse_srt_to_text: the document is at most MaxLines    *)
(* lines, each one of LineChoices, joined by newlines; its blank lines are *)
(* all empty or all a single space.  The threshold is the default or a     *)
(* small one that documents of a few lines cross.                          *)
(***************************************************************************)
LineChoices == {<<>>, <<"1">>, <<"a", ".">>, <<"[", "x", "]">>}

BlankLines == {<<>>, <<" ">>}

RECURSIVE LineSeqs(_)
LineSeqs(n) ==
  IF n = 0 THEN {<<>>}
  ELSE LET P == LineSeqs(n - 1) IN
       P \cup {Append(p, l) : p \in P, l \in LineChoices}

\* lines with every empty line written as blank
WithBlank(lines, blank) ==
  [i \in 1..Len(lines) |-> IF lines[i] = <<>> THEN blank ELSE lines[i]]

\* srt_lines holds the lines with every blank line empty; srt_content is
\* written from them with the blank lines in one of the BlankLines styles
InitParse ==
  /\ pc = "parse_srt_to_text"
  /\ srt_lines \in LineSeqs(MaxLines)
  /\ \E blank \in BlankLines :
       srt_content = Join(WithBlank(srt_lines, blank), <<"\n">>)
  /\ chars_per_paragraph \in {DocThreshold, DefaultCharsPerParagraph}
  /\ text = None
  /\ stages = None
  /\ clean_text = None
  /\ NoInvocation

ParseSrtToText ==
  /\ pc = "parse_srt_to_text"
  /\ clean_text' = parse_srt_to_text(srt_content, chars_per_paragraph)
  /\ pc' = "return"
  /\ UNCHANGED <<text, stages, chars_per_paragraph, srt_lines, srt_content,
                 event, calls, objects, response>>

NextParse == ParseSrtToText

SpecParse == InitParse /\ [][NextParse]_vars

\* the same documents, parsed with the default threshold as the source does
InitParseDefault ==
  /\ InitParse
  /\ chars_per_paragraph = DefaultCharsPerParagraph

SpecParseDefault == InitParseDefault /\ [][NextParse]_vars

(***************************************************************************)
(* lambda_handler, one action per step of its try block.  calls records    *)
(* every call of the S3 client with its outcome; objects is what           *)
(* put_object has stored.  An exception anywhere in the try block reaches  *)
(* the except clause, which logs it and raises it again: the invocation    *)
(* ends with response holding the error.                                   *)
(***************************************************************************)
Fields == {"bucket", "srtKey", "baseFilename"}

FieldValues ==
  [bucket |-> {"04-california"},
   srtKey |-> {"amazon_transcribe/ine/transcripts/video01.srt"},
   baseFilename |-> {"video01", "video02"}]

\* request objects: any subset of the fields, each with one of its values
Events ==
  UNION {{e \in [present -> UNION {FieldValues[f] : f \in present}] :
            \A f \in present : e[f] \in FieldValues[f]} :
         present \in SUBSET Fields}

\* the contents the object under srtKey may have
ObjectContents ==
  {Join(lines, <<"\n">>) : lines \in LineSeqs(MaxObjectLines)}

TxtKey(base_filename) == <<"amazon_transcribe/ine/text/", base_filename, ".txt">>

Raise(error) ==
  /\ pc' = "raised"
  /\ response' = [errorType |-> error]

InitHandler ==
  /\ pc = "lambda_handler"
  /\ event \in Events
  /\ srt_content = None
  /\ clean_text = None
  /\ calls = <<>>
  /\ objects = {}
  /\ response = NoResponse
  /\ text = None
  /\ stages = None
  /\ srt_lines = None
  /\ chars_per_paragraph = DefaultCharsPerParagraph

\* bucket = event['bucket'] ... base_filename = event['baseFilename']
ExtractParameters ==
  /\ pc = "lambda_handler"
  /\ IF Fields \subseteq DOMAIN event
     THEN pc' = "download_srt" /\ UNCHANGED response
     ELSE Raise("KeyError")
  /\ UNCHANGED <<text, stages, chars_per_paragraph, srt_lines, srt_content,
                 clean_text, event, calls, objects>>

\* get_object, read and decode succeed
DownloadSrt ==
  /\ pc = "download_srt"
  /\ calls' = Append(calls, [op |-> "get_object", ok |-> TRUE])
  /\ srt_content' \in ObjectContents
  /\ pc' = "parse_srt_to_text"
  /\ UNCHANGED <<text, stages, chars_per_paragraph, srt_lines, clean_text,
                 event, objects, response>>

\* the same with the error logged and an empty document returned
DownloadSrtFailsSwallowed ==
  /\ pc = "download_srt"
  /\ calls' = Append(calls, [op |-> "get_object", ok |-> FALSE])
  /\ srt_content' = <<>>
  /\ pc' = "parse_srt_to_text"
  /\ UNCHANGED <<text, stages, chars_per_paragraph, srt_lines, clean_text,
                 event, objects, response>>

\* get_object raises NoSuchKey, or it, read or decode raise something else
DownloadSrtFails ==
  /\ pc = "download_srt"
  /\ calls' = Append(calls, [op |-> "get_object", ok |-> FALSE])
  /\ \E error \in {"NoSuchKey", "Exception"} : Raise(error)
  /\ UNCHANGED <<text, stages, chars_per_paragraph, srt_lines, srt_content,
                 clean_text, event, objects>>

\* clean_text = parse_srt_to_text(srt_content)
Transform ==
  /\ pc = "parse_srt_to_text"
  /\ clean_text' = parse_srt_to_text(srt_content, chars_per_paragraph)
  /\ pc' = "upload_text"
  /\ UNCHANGED <<text, stages, chars_per_paragraph, srt_lines, srt_content,
                 event, calls, objects, response>>

\* an exception out of parse_srt_to_text
TransformFails ==
  /\ pc = "parse_srt_to_text"
  /\ Raise("Exception")
  /\ UNCHANGED <<text, stages, chars_per_paragraph, srt_lines, srt_content,
                 clean_text, event, calls, objects>>

\* put_object succeeds, then the response is returned
UploadText ==
  /\ pc = "upload_text"
  /\ calls' = Append(calls, [op |-> "put_object", ok |-> TRUE])
  /\ objects' = objects \cup
       {[Bucket |-> event.bucket, Key |-> TxtKey(event.baseFilename),
         Body |-> clean_text]}
  /\ response' = [statusCode |-> 200, txtKey |-> TxtKey(event.baseFilename),
                  textLength |-> Len(clean_text)]
  /\ pc' = "return"
  /\ UNCHANGED <<text, stages, chars_per_paragraph, srt_lines, srt_content,
                 clean_text, event>>

\* the same with the error logged and the response returned all the same
UploadTextFailsSwallowed ==
  /\ pc = "upload_text"
  /\ calls' = Append(calls, [op |-> "put_object", ok |-> FALSE])
  /\ response' = [statusCode |-> 200, txtKey |-> TxtKey(event.baseFilename),
                  textLength |-> Len(clean_text)]
  /\ pc' = "return"
  /\ UNCHANGED <<text, stages, chars_per_paragraph, srt_lines, srt_content,
                 clean_text, event, objects>>

\* put_object raises
UploadTextFails ==
  /\ pc = "upload_text"
  /\ calls' = Append(calls, [op |-> "put_object", ok |-> FALSE])
  /\ Raise("Exception")
  /\ UNCHANGED <<text, stages, chars_per_paragraph, srt_lines, srt_content,
                 clean_text, event, objects>>

NextHandler ==
  \/ ExtractParameters
  \/ DownloadSrt
  \/ DownloadSrtFails
  \/ Transform
  \/ TransformFails
  \/ UploadText
  \/ UploadTextFails

SpecHandler == InitHandler /\ [][NextHandler]_vars

(***************************************************************************)
(* Order of the steps and failures (C4, C5).                               *)
(***************************************************************************)
CallsOf(op) == {i \in 1..Len(calls) : calls[i].op = op}

Failed == pc = "raised"

\* C4: the write is attempted only after a successful retrieval and a
\* completed transformation, in that order, and what is written is the
\* transformed text; an invocation that has failed on a missing request
\* field, in retrieval or in transformation has attempted no write and has
\* stored nothing.
C4_WriteOnlyAfterRetrieveAndTransform ==
  /\ CallsOf("put_object") # {} =>
       /\ Len(calls) = 2
       /\ calls[1] = [op |-> "get_object", ok |-> TRUE]
       /\ calls[2].op = "put_object"
       /\ srt_content # None
       /\ clean_text = parse_srt_to_text(srt_content, DefaultCharsPerParagraph)
  /\ \A o \in objects : CallsOf("put_object") # {} /\ o.Body = clean_text
  /\ (Failed /\ (srt_content = None \/ clean_text = None)) =>
       /\ objects = {}
       /\ CallsOf("put_object") = {}

\* a failed retrieval: nothing transformed, nothing written
C4_Witness ==
  /\ Failed
  /\ calls = <<[op |-> "get_object", ok |-> FALSE]>>
  /\ clean_text = None
  /\ objects = {}

\* C5: each collaborator is called at most once; a failed call is the last
\* call and ends the invocation with the error raised; the status-200
\* response is returned only when retrieval, transformation and write have
\* all succeeded, and then the transformed text is stored under txtKey.
C5_FailuresPropagateNoRetry ==
  /\ Cardinality(CallsOf("get_object")) <= 1
  /\ Cardinality(CallsOf("put_object")) <= 1
  /\ \A i \in 1..Len(calls) :
       ~calls[i].ok => /\ i = Len(calls)
                       /\ Failed
                       /\ "statusCode" \notin DOMAIN response
  /\ Failed => "errorType" \in DOMAIN response
  /\ "statusCode" \in DOMAIN response =>
       /\ pc = "return"
       /\ calls = <<[op |-> "get_object", ok |-> TRUE],
                    [op |-> "put_object", ok |-> TRUE]>>
       /\ clean_text = parse_srt_to_text(srt_content, DefaultCharsPerParagraph)
       /\ objects = {[Bucket |-> event.bucket, Key |-> response.txtKey,
                      Body |-> clean_text]}
       /\ response.textLength = Len(clean_text)

\* a failed write after a successful retrieval and transformation
C5_Witness ==
  /\ Failed
  /\ calls = <<[op |-> "get_object", ok |-> TRUE],
               [op |-> "put_object", ok |-> FALSE]>>
  /\ clean_text = <<"a", ".">>
  /\ objects = {}

(***************************************************************************)
(* Whitespace of the output (C1).                                          *)
(***************************************************************************)
\* C1: in the string parse_srt_to_text returns, every space stands alone
\* between two non-whitespace characters, every newline belongs to a pair
\* of newlines that stands between two non-whitespace characters, and
\* there is no other whitespace: no two consecutive spaces, no three
\* consecutive newlines.
C1_OnlySingleSpacesAndDoubleNewlines ==
  pc = "return" =>
    \A i \in 1..Len(clean_text) :
      /\ clean_text[i] \in Whitespace => clean_text[i] \in {" ", "\n"}
      /\ clean_text[i] = " " =>
           /\ 1 < i /\ i < Len(clean_text)
           /\ clean_text[i - 1] \notin Whitespace
           /\ clean_text[i + 1] \notin Whitespace
      /\ clean_text[i] = "\n" =>
           \E j \in {i - 1, i} :
             /\ 1 < j /\ j + 1 < Len(clean_text)
             /\ clean_text[j] = "\n" /\ clean_text[j + 1] = "\n"
             /\ clean_text[j - 1] \notin Whitespace
             /\ clean_text[j + 2] \notin Whitespace

\* one block with three text lines comes out as two paragraphs
C1_Witness ==
  /\ pc = "return"
  /\ chars_per_paragraph = DocThreshold
  /\ srt_lines = <<<<"1">>, <<"1">>, <<"a", ".">>, <<"a", ".">>, <<"a", ".">>>>
  /\ clean_text = <<"a", ".", " ", "a", ".", "\n", "\n", "a", ".">>

(***************************************************************************)
(* The document as its lines: blocks are the maximal runs of lines that    *)
(* are not blank (C2, C3).                                                 *)
(***************************************************************************)
IsBlank(line) == \A k \in 1..Len(line) : line[k] \in Whitespace

\* the maximal runs of non-blank lines, in order
Groups(lines) ==
  LET f[i \in 0..Len(lines)] ==
        IF i = 0 THEN <<>>
        ELSE LET before == f[i - 1] IN
             IF IsBlank(lines[i]) THEN before
             ELSE IF i > 1 /\ ~IsBlank(lines[i - 1])
                  THEN [before EXCEPT ![Len(before)] = Append(@, lines[i])]
                  ELSE Append(before, <<lines[i]>>)
  IN f[Len(lines)]

\* the lines of a block after its index line and its time-range line
TextOf(group) == SubSeq(group, 3, Len(group))

\* a text line without markup: words separated by single spaces, no tag,
\* code, bracket or parenthesis, no speaker label
PlainLine(line) ==
  /\ line # <<>>
  /\ \A k \in 1..Len(line) :
       /\ line[k] \notin MarkupChars
       /\ line[k] \in Whitespace =>
            /\ line[k] = " " /\ 1 < k /\ k < Len(line)
            /\ line[k + 1] \notin Whitespace
  /\ ~LabelAt(line, 1)

\* all the lines of the sequences in groups, in order
RECURSIVE Flatten(_)
Flatten(groups) ==
  IF groups = <<>> THEN <<>>
  ELSE groups[1] \o Flatten(SubSeq(groups, 2, Len(groups)))

\* the text lines of every block, in block order
AllTextLines(groups) ==
  Flatten([i \in 1..Len(groups) |-> TextOf(groups[i])])

\* C2: when every block of the document has 3 or more lines, its text
\* lines carry no markup and the whole text fits the threshold, the output
\* is the text lines in block order, joined by single spaces within a block
\* and between blocks, without any index or time-range line.
C2_ValidBlocksJoinedInOrder ==
  LET groups == Groups(srt_lines)
      expected == Join(AllTextLines(groups), <<" ">>)
  IN (/\ pc = "return"
      /\ \A i \in 1..Len(groups) :
           /\ Len(groups[i]) >= 3
           /\ \A k \in 3..Len(groups[i]) : PlainLine(groups[i][k])
      /\ Len(expected) <= chars_per_paragraph)
     => clean_text = expected

\* two valid blocks, "1 / 1 / a." and "a. / 1 / 1", come out as "a. 1"
C2_Witness ==
  /\ pc = "return"
  /\ srt_lines = <<<<"1">>, <<"1">>, <<"a", ".">>, <<>>,
                   <<"a", ".">>, <<"1">>, <<"1">>>>
  /\ clean_text = <<"a", ".", " ", "1">>

\* a block that contributes: 3 or more lines and a text that does not
\* sanitize to the empty string
Contributes(group) ==
  /\ Len(group) >= 3
  /\ clean_subtitle_text(Join(TextOf(group), <<" ">>)) # <<>>

\* the document with the blocks that do not contribute deleted
WithoutDroppedBlocks(lines) ==
  LET kept == SelectSeq(Groups(lines), Contributes)
  IN Join([i \in 1..Len(kept) |-> Join(kept[i], <<"\n">>)], <<"\n", "\n">>)

\* C3: the output is the output for the document without its blocks of
\* fewer than 3 lines and without its blocks whose text sanitizes to the
\* empty string, and it is the empty string when no block is left.
C3_DroppedBlocksContributeNothing ==
  pc = "return" =>
    /\ clean_text =
         parse_srt_to_text(WithoutDroppedBlocks(srt_lines), chars_per_paragraph)
    /\ WithoutDroppedBlocks(srt_lines) = <<>> => clean_text = <<>>

\* a block whose text sanitizes to nothing, then a valid block
C3_Witness ==
  /\ pc = "return"
  /\ srt_lines = <<<<"1">>, <<"1">>, <<"[", "x", "]">>, <<>>,
                   <<"1">>, <<"1">>, <<"a", ".">>>>
  /\ srt_content = Join(WithBlank(srt_lines, <<" ">>), <<"\n">>)
  /\ clean_text = <<"a", ".">>

(***************************************************************************)
(* The short circuit (C6).                                                 *)
(***************************************************************************)
\* C6: a document whose flat text is no longer than the threshold comes out
\* as its flat text, unchanged and in one paragraph: no newline in it.
C6_ShortTextIsOneParagraph ==
  pc = "return" =>
    LET flat == FlatText(srt_content) IN
    Len(flat) <= chars_per_paragraph =>
      /\ clean_text = flat
      /\ \A i \in 1..Len(clean_text) : clean_text[i] # "\n"

\* a flat text of exactly the threshold with a sentence end inside
C6_Witness ==
  /\ pc = "return"
  /\ chars_per_paragraph = DocThreshold
  /\ Len(FlatText(srt_content)) = DocThreshold
  /\ \E i \in 1..(Len(clean_text) - 1) : clean_text[i] \in SentenceEnd

(***************************************************************************)
(* The paragraph re-flow (C7, C8).                                         *)
(***************************************************************************)
\* words[i] ends a sentence and the words up to it, one space after each,
\* reach the threshold
SentenceEndPastThreshold(words, i, threshold) ==
  /\ words[i][Len(words[i])] \in SentenceEnd
  /\ Len(Join(SubSeq(words, 1, i), <<" ">>)) + 1 >= threshold

\* C7: the output has the words of the input, in order; putting one space
\* for every paragraph separator gives the input back; and when no word
\* ending in '.', '!' or '?' stands at or past the threshold the output is
\* the input, in one paragraph.
C7_WordsPreserved ==
  pc = "return" =>
    /\ SplitWords(clean_text) = SplitWords(text)
    /\ Join(SplitOnDoubleNewline(clean_text), <<" ">>) = text
    /\ (\A i \in 1..Len(SplitWords(text)) :
          ~SentenceEndPastThreshold(SplitWords(text), i, chars_per_paragraph))
        => clean_text = text

\* a text longer than the threshold whose only sentence end comes too early
C7_Witness ==
  /\ pc = "return"
  /\ chars_per_paragraph = 4
  /\ text = <<"a", ".", " ", "b", "b", " ", "a">>
  /\ clean_text = text

\* the paragraphs of the output but the last
ClosedParagraphs(out) ==
  SubSeq(SplitOnDoubleNewline(out), 1, Len(SplitOnDoubleNewline(out)) - 1)

\* C8 as stated: every paragraph but the last ends with a word ending in
\* '.', '!' or '?' and is at least `threshold` characters long.
C8_ClosedParagraphReachesThreshold ==
  pc = "return" =>
    \A i \in 1..Len(ClosedParagraphs(clean_text)) :
      LET p == ClosedParagraphs(clean_text)[i] IN
      /\ p # <<>> /\ p[Len(p)] \in SentenceEnd
      /\ Len(p) >= chars_per_paragraph

\* C8 amended: every paragraph but the last ends with a word ending in
\* '.', '!' or '?' and, counting one space after each of its words, has
\* reached the threshold: it is at least threshold - 1 characters long.
C8_ClosedParagraphWithinOneOfThreshold ==
  pc = "return" =>
    \A i \in 1..Len(ClosedParagraphs(clean_text)) :
      LET p == ClosedParagraphs(clean_text)[i] IN
      /\ p # <<>> /\ p[Len(p)] \in SentenceEnd
      /\ Len(p) + 1 >= chars_per_paragraph

\* "a. a" at threshold 3: the first paragraph, "a.", is 2 characters long
C8_Witness ==
  /\ pc = "return"
  /\ chars_per_paragraph = 3
  /\ text = <<"a", ".", " ", "a">>
  /\ clean_text = <<"a", ".", "\n", "\n", "a">>

(***************************************************************************)
(* Bracket and parenthesis removal (C9).                                   *)
(***************************************************************************)
\* s without the characters at the positions in removed
Keep(s, removed) ==
  LET f[i \in 0..Len(s)] ==
        IF i = 0 THEN <<>>
        ELSE IF i \in removed THEN f[i - 1] ELSE Append(f[i - 1], s[i])
  IN f[Len(s)]

\* positions inside a pair open..close that holds no other delimiter
InnermostPairs(s, open, close) ==
  {p \in 1..Len(s) :
     \E i \in 1..p, j \in p..Len(s) :
        /\ i < j /\ s[i] = open /\ s[j] = close
        /\ \A k \in (i + 1)..(j - 1) : s[k] \notin {open, close}}

\* positions reached from an `open` without crossing a `close`, with a
\* `close` at or after them
OpenToFirstClose(s, open, close) ==
  {p \in 1..Len(s) :
     /\ \E i \in 1..p : s[i] = open /\ \A k \in i..(p - 1) : s[k] # close
     /\ \E j \in p..Len(s) : s[j] = close}

\* C9 as stated: every removed substring is the shortest one between an
\* opening delimiter and the next closing delimiter, the first ']' (or ')')
\* closing the nearest preceding '[' (or '('): exactly the innermost pairs
\* are removed.
C9_ShortestMatch ==
  pc = "return" =>
    /\ stages.square = Keep(stages.label, InnermostPairs(stages.label, "[", "]"))
    /\ stages.parens = Keep(stages.square, InnermostPairs(stages.square, "(", ")"))

\* C9 amended: every removed substring starts at the leftmost opening
\* delimiter not yet removed that has a closing delimiter after it and ends
\* at the first closing delimiter after that opener, so openers nested
\* inside it go with it: a character is removed exactly when some opener at
\* or before it is not closed before it and a closer stands at or after it.
C9_LeftmostOpenerToFirstCloser ==
  pc = "return" =>
    /\ stages.square = Keep(stages.label, OpenToFirstClose(stages.label, "[", "]"))
    /\ stages.parens = Keep(stages.square, OpenToFirstClose(stages.square, "(", ")"))

\* the nested input "[x[]" loses everything from the first '[' on
C9_Witness ==
  /\ pc = "return"
  /\ text = <<"[", "x", "[", "]">>
  /\ stages.square = <<>>

(***************************************************************************)
(* Speaker label removal (C10).                                            *)
(***************************************************************************)
\* s is one label and the whitespace after it, nothing else
IsLabel(s) ==
  /\ LabelAt(s, 1)
  /\ LET c == NextIndex(s, ":", 1) IN
       \A k \in (c + 1)..Len(s) : s[k] \in Whitespace

\* what may stand before a label that the later steps take away: whitespace,
\* a marker in square brackets or parentheses, or a first label
LaterRemoved(s) ==
  /\ s # <<>>
  /\ \/ \A k \in 1..Len(s) : s[k] \in Whitespace
     \/ /\ <<s[1], s[Len(s)]>> \in {<<"[", "]">>, <<"(", ")">>}
        /\ \A k \in 2..(Len(s) - 1) : s[k] \notin MarkupChars
     \/ IsLabel(s)

\* a label stands in s right after a part the later steps take away
ShadowedLabel(s) ==
  \E k \in 1..Len(s) : LaterRemoved(SubSeq(s, 1, k)) /\ LabelAt(s, k + 1)

CountLabels(s) == Cardinality({p \in 1..Len(s) : LabelAt(s, p)})

\* C10: the label step changes the segment exactly when the segment, after
\* tag and curly-brace removal, begins with a label, and then takes away
\* that one label with the whitespace after it; a label after leading
\* whitespace, after a bracketed or parenthesised marker or after a first
\* label is still there at the start of the sanitized segment; and a
\* segment without markup loses one label if it begins with one, none
\* otherwise.
C10_LabelRemovedOnlyAtStart ==
  pc = "return" =>
    /\ stages.label # stages.codes <=> LabelAt(stages.codes, 1)
    /\ \E k \in 0..Len(stages.codes) :
         /\ stages.label = From(stages.codes, k + 1)
         /\ k > 0 => IsLabel(SubSeq(stages.codes, 1, k))
    /\ ShadowedLabel(text) => LabelAt(stages.out, 1)
    /\ (\A k \in 1..Len(text) : text[k] \notin MarkupChars) =>
         CountLabels(stages.out) + (IF LabelAt(text, 1) THEN 1 ELSE 0)
           = CountLabels(normalize_whitespace(text))

\* "[]Speaker 1:x" keeps its label, which now starts the segment
C10_Witness ==
  /\ pc = "return"
  /\ text = <<"[", "]">> \o SpeakerLabel \o <<"x">>
  /\ stages.label = text
  /\ stages.out = SpeakerLabel \o <<"x">>

====
